---- MODULE Spec2Model ----
(***************************************************************************)
(* Screenshot application: the capture pipeline                            *)
(*   trigger -> take_screenshot -> (CroppingWindow.mark_cropping_box)      *)
(*           -> edit_screenshot -> save_screenshot -> discard -> sound     *)
(* of src/GUI/screenshot_widgets.py over the backend objects of            *)
(* src/backend/screenshot_creation.py.                                     *)
(*                                                                         *)
(* The specifications share the state and the step definitions:            *)
(*   Spec        the application: button and hotkey triggers on two        *)
(*               threads, with display, directory and audio in order,      *)
(*   SpecSession one create_screenshot call after another on the Tk        *)
(*               thread, in any environment,                               *)
(*   SpecFull    a cropped session on the Tk thread and full captures by   *)
(*               hotkey, with the scheduling of the threads,               *)
(*   SpecMark    mark_cropping_box on its own,                             *)
(*   SpecDrag    cropped sessions from the drag to the file,               *)
(*   SpecSave    direct calls of save_screenshot on one backend object,    *)
(*   SpecCrop    direct calls of take_screenshot / edit_screenshot,        *)
(*   SpecLoop    one save_screenshot call with no other writer, the thread *)
(*               running on,                                               *)
(*   SpecSelector the cropping window with every event it can get,         *)
(*   SpecSettings the settings window of src/GUI/settings.py over the      *)
(*               Settings dict of src/backend/settings.py.                 *)
(***************************************************************************)
EXTENDS Integers, Sequences, FiniteSets

VARIABLES
  files,            \* names of the files present in save_dir
  dir_state,        \* save_dir on disk: "ok", "missing" or "readonly"
  clock,            \* the value datetime.now() returns when read
  file_format,      \* settings["global_file_format"], given to both backends
  enable_sound,     \* settings["enable_sound"]
  image,            \* Screenshot._image of each backend object
  image_file_path,  \* Screenshot._image_file_path of each backend object
  pc,               \* where each thread stands
  local,            \* each thread's local variables
  err,              \* the exception that ended each thread's last call
  windows,          \* the CroppingWindow each thread created, if any
  parent_state,     \* the main window: "normal", "withdrawn" or "iconic"
  grab,             \* the thread whose CroppingWindow holds the input grab
  triggers,         \* how many times create_screenshot has been started
  display,          \* the monitors: "ok", or "none" when none is reachable
  audio,            \* the mixer: "ok", or "broken" when playback fails
  played,           \* whether each thread's last session played the sound
  settings,         \* the Settings dict in memory (the keys the window edits)
  settings_file,    \* the content of the settings file
  app,              \* the main window and its settings window
  apply_err         \* the error the last apply_new_settings call showed

vars == <<files, dir_state, clock, file_format, enable_sound, image,
          image_file_path, pc, local, err, windows, parent_state, grab,
          triggers, display, audio, played, settings, settings_file, app,
          apply_err>>

diskVars == <<files, dir_state, clock>>
setVars == <<settings, settings_file, app, apply_err>>
cfgVars == <<file_format, enable_sound, display, audio, setVars>>
guiVars == <<windows, parent_state, grab, triggers, played>>

\* Python's None, for the values that are strings here (exception names,
\* thread names); NoImage, NoPath, NoBox and NoWindow stand for it elsewhere.
None == "None"
NoImage == [w |-> -1, h |-> -1, px |-> <<>>]
NoPath == [ts |-> -1, c_str |-> <<>>, ext |-> ""]
NoBox == <<>>
NoWindow == [open |-> FALSE]

(***************************************************************************)
(* Bounds of the model.                                                    *)
(***************************************************************************)
MonW == 3        \* width of the primary monitor, in pixels
MonH == 2        \* height of the primary monitor, in pixels
MaxClock == 1    \* timestamps are 0..MaxClock
MaxCount == 3    \* the collision loop is followed up to the suffix _MaxCount
MaxPre == 2      \* at most MaxPre files are in save_dir at the start
MaxSaves == 2    \* direct use calls save_screenshot at most MaxSaves times
MaxEdits == 1    \* direct use calls edit_screenshot at most MaxEdits times
MaxTriggers == 2 \* create_screenshot is started at most MaxTriggers times

Threads == {"main", "hotkey"}
Backends == {"full", "cropped"}
Timestamps == 0..MaxClock

(***************************************************************************)
(* settings.py: SupportedImageFormats                                      *)
(***************************************************************************)
SupportedImageFormats ==
  {"png", "PNG", "jpeg", "JPEG", "jpg", "JPG", "bmp", "BMP"}

\* The extensions imageio.imwrite finds a writer for: its registry is wider
\* than the enum above (TIFF among others), and is matched in any letter case.
ImageioFormats == SupportedImageFormats \cup {"tiff"}

\* Formats a backend object is constructed with in the direct-use runs.
FormatInputs == {"png", "JPG", "tiff", "xyz"}

DirStates == {"ok", "missing", "readonly"}

\* Whether screeninfo and mss find a monitor; whether the mixer plays.
Displays == {"ok", "none"}
Audios == {"ok", "broken"}

(***************************************************************************)
(* Rasters: numpy arrays of shape (h, w), pixel (x, y) at px[<<x, y>>].    *)
(***************************************************************************)
Pixels(w, h) == (0..(w - 1)) \X (0..(h - 1))

\* np.uint8(...) / .astype("uint8"): the value modulo 256.
ToUint8(v) == v % 256
\* np.asarray(..., dtype="float32"): exact on the values of an 8-bit image.
ToFloat32(v) == v

\* What is on the screen when it is grabbed: every pixel differs, none is 0.
ScreenPixel(x, y) == 1 + x + y * MonW

\* take_screenshot: the primary monitor from (0, 0), as float32.
GrabbedImage ==
  [w |-> MonW, h |-> MonH,
   px |-> [p \in Pixels(MonW, MonH) |-> ToFloat32(ScreenPixel(p[1], p[2]))]]

(***************************************************************************)
(* File names of save_screenshot: <timestamp><c_str>.<file_format>.        *)
(* c_str is "" (here <<>>) or "_" + str(count) (here <<"_", count>>).      *)
(***************************************************************************)
CStrOf(count) == <<"_", count>>

FilePath(ts, c_str, fmt) == [ts |-> ts, c_str |-> c_str, ext |-> fmt]

\* Every name the loop can build for a format, up to the suffix bound.
CandidateNames(fmt) ==
  {FilePath(ts, <<>>, fmt) : ts \in Timestamps}
    \cup {FilePath(ts, CStrOf(k), fmt) : ts \in Timestamps, k \in 2..MaxCount}

\* os.path.exists with the test lost: C3 must fail with it.
PathExistsNever(path, fs) == FALSE

\* os.path.exists answering yes to every name: C23 must fail with it.
PathExistsAlways(path, fs) == TRUE

\* os.path.exists(file_path): false too when the directory itself is missing.
PathExists(path, fs) == path \in fs

\* count going up by two: C4 must fail with it.
NextCountSkip(count) == count + 2

\* count += 1
NextCount(count) == count + 1

\* imageio.imwrite(uri=file_path, ...): the exception it ends with, or None.
\* The directory is looked up first, then a writer for the extension, and only
\* then is the file opened for writing.
ImwriteError(fmt, dir) ==
  IF dir = "missing" THEN "FileNotFoundError"
  ELSE IF fmt \notin ImageioFormats THEN "ValueError"
  ELSE IF dir = "readonly" THEN "PermissionError"
  ELSE None

\* imwrite that leaves no file: C10 must fail with it.
WriteFileNowhere(fs, path) == fs

\* The file system after a successful imwrite.
WriteFile(fs, path) == fs \cup {path}

\* The except clauses of save_screenshot: what the caller sees.
SaveRaised(e) ==
  IF e = "ValueError" THEN "InvalidFileFormat"
  ELSE IF e = "FileNotFoundError" THEN "InvalidFilePathError"
  ELSE e

\* A thread's locals: the call it runs (mode: "api" for a direct call, else the
\* widget whose create_screenshot it runs; op: the backend method a direct
\* call is of), the backend object it works on,
\* create_screenshot's box, save_screenshot's file_path, count and c_str.
\* The rest is history: tried, the candidates this save call found to exist;
\* files0 and path0, the directory and image_file_path when the save call
\* began; image0, the image when the direct edit call began; saves and edits,
\* the number of direct save and edit calls made so far; stages, the
\* statements of create_screenshot that have returned in this session; raw,
\* the cropping_box as mark_cropping_box found it when its wait ended.
NoLocals ==
  [mode |-> None, op |-> None, backend |-> None, box |-> NoBox,
   file_path |-> NoPath, count |-> 0, c_str |-> <<>>, tried |-> <<>>,
   files0 |-> {}, path0 |-> NoPath, saves |-> 0,
   image0 |-> NoImage, edits |-> 0, stages |-> <<>>, raw |-> NoBox]

(***************************************************************************)
(* save_screenshot, step by step (screenshot_creation.py 130-168).         *)
(***************************************************************************)
\* Where a thread goes when the backend call it runs returns (ok) or raises:
\* a direct call gives control back to its caller; inside create_screenshot
\* the next statement follows, and an exception ends the session.
\* create_screenshot going on after a statement raised: C11 must fail with it.
AfterCallGoOn(t, next, ok) ==
  IF local[t].mode = "api" THEN "idle" ELSE next

AfterCall(t, next, ok) ==
  IF local[t].mode = "api" \/ ~ok THEN "idle" ELSE next

\* The thread's locals after such a call: those of create_screenshot are gone
\* when an exception ends it; a direct caller keeps its own.
LocalsAfterCall(t, ok) ==
  IF local[t].mode = "api" \/ ok THEN local[t] ELSE NoLocals

\* The statements of create_screenshot that have returned, once statement s
\* has; a direct call is no part of a session.
StageDone(t, s) ==
  IF local[t].mode = "api" THEN local[t].stages
  ELSE Append(local[t].stages, s)

\* The thread's locals after statement s of create_screenshot returned (ok)
\* or raised.
LocalsAfterStage(t, s, ok) ==
  IF ok THEN [local[t] EXCEPT !.stages = StageDone(t, s)]
  ELSE LocalsAfterCall(t, FALSE)

\* lines 138-143: file_path = ""; conflict, count, c_str = True, 1, ""
SaveStart(t) ==
  /\ pc[t] = "save"
  /\ local' = [local EXCEPT
                 ![t].file_path = NoPath, ![t].count = 1, ![t].c_str = <<>>,
                 ![t].tried = <<>>, ![t].files0 = files,
                 ![t].path0 = image_file_path[local[t].backend]]
  /\ pc' = [pc EXCEPT ![t] = "loop"]
  /\ UNCHANGED <<diskVars, cfgVars, guiVars, image, image_file_path, err>>

\* lines 144-157 without the write: build the candidate from a fresh reading
\* of the clock, test it, and either go on to write it or count up.
SaveCheck(t) ==
  /\ pc[t] = "loop"
  /\ LET path == FilePath(clock, local[t].c_str, file_format) IN
       IF ~PathExists(path, files)
       THEN /\ local' = [local EXCEPT ![t].file_path = path]
            /\ pc' = [pc EXCEPT ![t] = "write"]
       ELSE /\ NextCount(local[t].count) <= MaxCount
            /\ local' = [local EXCEPT
                           ![t].file_path = path,
                           ![t].count = NextCount(local[t].count),
                           ![t].c_str = CStrOf(NextCount(local[t].count)),
                           ![t].tried = Append(local[t].tried, path)]
            /\ pc' = pc
  /\ UNCHANGED <<diskVars, cfgVars, guiVars, image, image_file_path, err>>

\* line 152 and, when it returns, line 160; when it raises, lines 163-168.
SaveWrite(t) ==
  /\ pc[t] = "write"
  /\ LET e == ImwriteError(file_format, dir_state)
         b == local[t].backend
     IN
       IF e = None
       THEN /\ files' = WriteFile(files, local[t].file_path)
            /\ image_file_path' =
                 [image_file_path EXCEPT ![b] = local[t].file_path]
            /\ err' = err
            /\ pc' = [pc EXCEPT ![t] = AfterCall(t, "discard", TRUE)]
            /\ local' = [local EXCEPT ![t] = LocalsAfterStage(t, "save", TRUE)]
       ELSE /\ err' = [err EXCEPT ![t] = SaveRaised(e)]
            /\ pc' = [pc EXCEPT ![t] = AfterCall(t, "discard", FALSE)]
            /\ local' = [local EXCEPT ![t] = LocalsAfterCall(t, FALSE)]
            /\ UNCHANGED <<files, image_file_path>>
  /\ UNCHANGED <<dir_state, clock, cfgVars, guiVars, image>>

\* datetime.now() moves on between two readings (local wall-clock time: it
\* may also be set back). Only line 147 reads it, so it is let change when
\* some thread is about to read it.
ClockChange ==
  /\ \E t \in Threads : pc[t] = "loop"
  /\ \E c \in Timestamps \ {clock} : clock' = c
  /\ UNCHANGED <<files, dir_state, cfgVars, guiVars, image, image_file_path,
                 pc, local, err>>

(***************************************************************************)
(* Direct use of save_screenshot: a caller that holds a backend object     *)
(* with an image and calls save_screenshot on it, one call after another.  *)
(***************************************************************************)
ApiSave(t) ==
  /\ pc[t] = "idle"
  /\ local[t].saves < MaxSaves
  /\ local' = [local EXCEPT ![t].mode = "api", ![t].op = "save",
                            ![t].backend = "cropped",
                            ![t].saves = local[t].saves + 1]
  /\ err' = [err EXCEPT ![t] = None]
  /\ pc' = [pc EXCEPT ![t] = "save"]
  /\ UNCHANGED <<diskVars, cfgVars, guiVars, image, image_file_path>>

(***************************************************************************)
(* The settings (backend/settings.py): the dict, its validation, the file. *)
(***************************************************************************)
\* The directories that exist, and the names typed in the directory entry.
ExistingDirs == {"shots", "other"}
DirEntries == {"shots", "other", "nowhere"}

\* The names typed in the format entry, in several letter cases.
FormatEntries == {"png", "JPG", "Png", "JpEg", "gif"}

\* The key names SystemHotkey knows.
KnownKeys == {"control", "shift", "f1", "f2"}

\* The text of a hotkey entry: its items, each a key name in quotes, the
\* closing quote there or forgotten.
Quoted(k) == [key |-> k, closed |-> TRUE]
Unclosed(k) == [key |-> k, closed |-> FALSE]
EntryF1 == <<Quoted("control"), Quoted("f1")>>
EntryF2 == <<Quoted("control"), Quoted("f2")>>
EntryUnclosed == <<Quoted("control"), Unclosed("f1")>>
EntryNoKey == <<Quoted("nokey")>>
EntryEmpty == <<>>

\* The texts typed in the two hotkey entries, the full screenshot's first.
HotkeyEntries ==
  { <<EntryF1, EntryF2>>, <<EntryF2, EntryF1>>, <<EntryF1, EntryF1>>,
    <<EntryUnclosed, EntryF2>>, <<EntryF2, EntryUnclosed>>,
    <<EntryEmpty, EntryF2>>, <<EntryNoKey, EntryF2>>,
    <<EntryF1, EntryNoKey>> }

\* GUI/settings.py 140-143: the quotes are made double and the text is read
\* as a JSON list; an item whose quote is not closed is a syntax error.
JsonLoads(e) ==
  IF \E i \in 1..Len(e) : ~e[i].closed
    THEN [ok |-> FALSE, value |-> <<>>]
    ELSE [ok |-> TRUE, value |-> [i \in 1..Len(e) |-> e[i].key]]

\* hk.parse_hotkeylist (lines 146-155) raises for a key it does not know.
ParseHotkeylistRaises(h) == \E i \in 1..Len(h) : h[i] \notin KnownKeys

\* The settings the application was started with: they passed validation
\* when they were loaded. The keys use_global_save_dir, use_global_file_format
\* and clipboard_copy are never set after that and are left out.
DefaultSettings ==
  [global_save_dir |-> "shots",
   global_file_format |-> "png",
   full_screenshot_hotkey |-> <<"control", "f1">>,
   cropped_screenshot_hotkey |-> <<"control", "f2">>]

\* The content the settings file had when the application was started.
LoadedFile == [loaded |-> TRUE]

\* write_settings_file (lines 224-237): the dict as it is, enable_sound with it.
FileOf(s, sound) ==
  [global_save_dir |-> s.global_save_dir,
   global_file_format |-> s.global_file_format,
   enable_sound |-> sound,
   full_screenshot_hotkey |-> s.full_screenshot_hotkey,
   cropped_screenshot_hotkey |-> s.cropped_screenshot_hotkey]

\* Validation that finds nothing wrong: C30 must fail with it.
ValidationSkipped(s) == None

\* validate_settings_dict (lines 75-155): the parameter whose test fails
\* first, or None. The format must be one of the values of the enumeration
\* SupportedImageFormats as it is written.
ValidationErrorOf(s) ==
  CASE Len(s.full_screenshot_hotkey) = 0 -> "shape of full_screenshot_hotkey"
    [] Len(s.cropped_screenshot_hotkey) = 0
         -> "shape of cropped_screenshot_hotkey"
    [] s.global_save_dir \notin ExistingDirs -> "global_save_dir"
    [] s.global_file_format \notin SupportedImageFormats
         -> "global_file_format"
    [] s.full_screenshot_hotkey = s.cropped_screenshot_hotkey
         -> "same hotkeys"
    [] ParseHotkeylistRaises(s.full_screenshot_hotkey)
         -> "full_screenshot_hotkey"
    [] ParseHotkeylistRaises(s.cropped_screenshot_hotkey)
         -> "cropped_screenshot_hotkey"
    [] OTHER -> None

InitCommon ==
  /\ settings = DefaultSettings
  /\ settings_file = LoadedFile
  /\ app = "main"
  /\ apply_err = None
  /\ image_file_path = [b \in Backends |-> NoPath]
  /\ pc = [t \in Threads |-> "idle"]
  /\ local = [t \in Threads |-> NoLocals]
  /\ err = [t \in Threads |-> None]
  /\ windows = [t \in Threads |-> NoWindow]
  /\ parent_state = "normal"
  /\ grab = None
  /\ triggers = 0
  /\ played = [t \in Threads |-> FALSE]

\* Any directory state, any format, any clock, any few files already there (a
\* missing directory holds none).
InitSave ==
  /\ InitCommon
  /\ enable_sound = TRUE
  /\ display = "ok"
  /\ audio = "ok"
  /\ file_format \in FormatInputs
  /\ dir_state \in DirStates
  /\ clock \in Timestamps
  /\ files \in {fs \in SUBSET CandidateNames(file_format) :
                   /\ Cardinality(fs) <= MaxPre
                   /\ dir_state = "missing" => fs = {}}
  /\ image = [b \in Backends |-> IF b = "cropped" THEN GrabbedImage ELSE NoImage]

NextSave ==
  \/ ApiSave("main")
  \/ SaveStart("main")
  \/ SaveCheck("main")
  \/ SaveWrite("main")
  \/ ClockChange

SpecSave == InitSave /\ [][NextSave]_vars

(***************************************************************************)
(* edit_screenshot (screenshot_creation.py 127-128 and 177-195).           *)
(***************************************************************************)
\* Boxes handed to edit_screenshot in direct use: the first corner from one
\* pixel before the monitor's raster, the second up to one past its far edge,
\* in either order.
BoxInputs ==
  {<<x0, y0, x1, y1>> : x0 \in -1..MonW, y0 \in -1..MonH,
                        x1 \in 0..(MonW + 1), y1 \in 0..(MonH + 1)}

InRaster(img, x, y) == 0 <= x /\ x < img.w /\ 0 <= y /\ y < img.h

\* crop with the right and lower edges included: C20 must fail with it.
PILCropInclusive(img, box) ==
  [w |-> box[3] - box[1] + 1, h |-> box[4] - box[2] + 1,
   px |-> [p \in Pixels(box[3] - box[1] + 1, box[4] - box[2] + 1) |->
            IF InRaster(img, box[1] + p[1], box[2] + p[2])
            THEN img.px[<<box[1] + p[1], box[2] + p[2]>>]
            ELSE 0]]

\* crop that starts one column late: C7 must fail with it.
PILCropShifted(img, box) ==
  [w |-> box[3] - box[1], h |-> box[4] - box[2],
   px |-> [p \in Pixels(box[3] - box[1], box[4] - box[2]) |->
            IF InRaster(img, box[1] + p[1] + 1, box[2] + p[2])
            THEN img.px[<<box[1] + p[1] + 1, box[2] + p[2]>>]
            ELSE 0]]

\* PIL.Image.crop(box): the region (left, upper, right, lower), left and upper
\* inclusive, right and lower exclusive; what lies outside the image is 0.
PILCrop(img, box) ==
  [w |-> box[3] - box[1], h |-> box[4] - box[2],
   px |-> [p \in Pixels(box[3] - box[1], box[4] - box[2]) |->
            IF InRaster(img, box[1] + p[1], box[2] + p[2])
            THEN img.px[<<box[1] + p[1], box[2] + p[2]>>]
            ELSE 0]]

\* PIL.Image.crop raises ValueError for right < left or lower < upper only.
CropRaises(box) == box[3] < box[1] \/ box[4] < box[2]

\* Image.fromarray(np.uint8(self.image))
AsUint8(img) == [img EXCEPT !.px = [p \in DOMAIN img.px |-> ToUint8(img.px[p])]]
\* np.asarray(image, dtype="float32")
AsFloat32(img) ==
  [img EXCEPT !.px = [p \in DOMAIN img.px |-> ToFloat32(img.px[p])]]

\* The exception edit_screenshot of backend b ends with, or None.
\* MonitorScreenshot.edit_screenshot does nothing; the cropped one fails in
\* np.uint8 on a missing image (TypeError, not caught) and turns the
\* ValueError of crop into CroppingError.
EditError(b, img, box) ==
  IF b = "full" THEN None
  ELSE IF img = NoImage THEN "TypeError"
  ELSE IF CropRaises(box) THEN "CroppingError"
  ELSE None

\* The image stored before crop's ValueError is seen: C6 must fail with it.
EditedImageEarly(b, img, box) ==
  IF b = "full" \/ img = NoImage THEN img
  ELSE AsFloat32(PILCrop(AsUint8(img), box))

\* self._image after edit_screenshot of backend b: line 191 is reached only
\* when lines 187-189 did not raise.
EditedImage(b, img, box) ==
  IF EditError(b, img, box) # None \/ b = "full" THEN img
  ELSE AsFloat32(PILCrop(AsUint8(img), box))

EditScreenshot(t) ==
  /\ pc[t] = "edit"
  /\ LET b == local[t].backend
         e == EditError(b, image[b], local[t].box)
     IN /\ image' = [image EXCEPT ![b] = EditedImage(b, image[b], local[t].box)]
        /\ err' = [err EXCEPT ![t] = e]
        /\ pc' = [pc EXCEPT ![t] = AfterCall(t, "save", e = None)]
        /\ local' = [local EXCEPT ![t] = LocalsAfterStage(t, "edit", e = None)]
  /\ UNCHANGED <<diskVars, cfgVars, guiVars, image_file_path>>

\* The exceptions take_screenshot can end with when no monitor is reachable:
\* screeninfo.get_monitors() raises ScreenInfoError when no enumerator
\* answers, and returns an empty list (IndexError at [0]) when one answers
\* with no monitor. Nothing in take_screenshot catches either.
NoDisplayErrors == {"ScreenInfoError", "IndexError"}

TakeErrors(d) == IF d = "none" THEN NoDisplayErrors ELSE {None}

\* self._image after take_screenshot: line 125 is the only assignment.
TakenImage(img, e) == IF e = None THEN GrabbedImage ELSE img

\* take_screenshot (lines 106-125): the grabbed monitor replaces the image.
TakeScreenshot(t) ==
  /\ pc[t] = "take"
  /\ \E e \in TakeErrors(display) :
       /\ image' = [image EXCEPT ![local[t].backend] =
                      TakenImage(image[local[t].backend], e)]
       /\ err' = [err EXCEPT ![t] = e]
       /\ pc' = [pc EXCEPT ![t] =
                   AfterCall(t, IF local[t].mode = "cropped" THEN "window"
                                ELSE "edit", e = None)]
       /\ local' = [local EXCEPT ![t] = LocalsAfterStage(t, "take", e = None)]
  /\ UNCHANGED <<diskVars, cfgVars, guiVars, image_file_path>>

(***************************************************************************)
(* Direct use of take_screenshot and edit_screenshot on one                *)
(* CroppedMonitorScreenshot object.                                        *)
(***************************************************************************)
ApiTake(t) ==
  /\ pc[t] = "idle"
  /\ local[t].edits > 0
  /\ local' = [local EXCEPT ![t].mode = "api", ![t].op = "take",
                            ![t].backend = "cropped"]
  /\ err' = [err EXCEPT ![t] = None]
  /\ pc' = [pc EXCEPT ![t] = "take"]
  /\ UNCHANGED <<diskVars, cfgVars, guiVars, image, image_file_path>>

ApiEdit(t) ==
  /\ pc[t] = "idle"
  /\ local[t].edits < MaxEdits
  /\ \E box \in BoxInputs :
       local' = [local EXCEPT ![t].mode = "api", ![t].op = "edit",
                              ![t].backend = "cropped", ![t].box = box, ![t].image0 = image["cropped"],
                              ![t].edits = local[t].edits + 1]
  /\ err' = [err EXCEPT ![t] = None]
  /\ pc' = [pc EXCEPT ![t] = "edit"]
  /\ UNCHANGED <<diskVars, cfgVars, guiVars, image, image_file_path>>

InitCrop ==
  /\ InitCommon
  /\ enable_sound = TRUE
  /\ display = "ok"
  /\ audio = "ok"
  /\ file_format = "png"
  /\ dir_state = "ok"
  /\ clock = 0
  /\ files = {}
  /\ image = [b \in Backends |-> IF b = "cropped" THEN GrabbedImage ELSE NoImage]

NextCrop ==
  \/ ApiTake("main")
  \/ TakeScreenshot("main")
  \/ ApiEdit("main")
  \/ EditScreenshot("main")

SpecCrop == InitCrop /\ [][NextCrop]_vars

(***************************************************************************)
(* Properties of edit_screenshot (checked under SpecCrop).                 *)
(***************************************************************************)
\* A direct edit call of thread t has ended.
EditEnded(t) ==
  pc[t] = "idle" /\ local[t].mode = "api" /\ local[t].op = "edit"

\* The box lies partly or wholly outside [0, w) x [0, h) of the image.
OutsideRaster(img, box) ==
  box[1] < 0 \/ box[2] < 0 \/ box[3] > img.w \/ box[4] > img.h

\* C5 as claimed: a box partly or wholly outside the raster makes
\* edit_screenshot fail with CroppingError, and no truncated or padded image
\* takes the place of the stored one.
C5_OutOfBoundsFails ==
  \A t \in Threads :
    (EditEnded(t) /\ OutsideRaster(local[t].image0, local[t].box))
      => /\ err[t] = "CroppingError"
         /\ image["cropped"] = local[t].image0

\* C6: when edit_screenshot raised CroppingError the stored image is the one
\* stored before the call; it differs only after a crop that succeeded.
C6_ErrorKeepsImage ==
  \A t \in Threads :
    EditEnded(t)
      => /\ err[t] = "CroppingError" => image["cropped"] = local[t].image0
         /\ image["cropped"] # local[t].image0 => err[t] = None

C6_Witness ==
  \E t \in Threads :
    /\ EditEnded(t)
    /\ err[t] = "CroppingError"
    /\ local[t].box = <<2, 0, 1, 1>>
    /\ image["cropped"] = GrabbedImage

\* C7: a box with 0 <= x0 < x1 <= w and 0 <= y0 < y1 <= h leaves an image of
\* size (x1 - x0) x (y1 - y0) whose pixel (i, j) is source pixel
\* (x0 + i, y0 + j).
C7_CropExact ==
  \A t \in Threads :
    EditEnded(t) =>
      LET src == local[t].image0
          box == local[t].box
          out == image["cropped"]
      IN (/\ 0 <= box[1] /\ box[1] < box[3] /\ box[3] <= src.w
          /\ 0 <= box[2] /\ box[2] < box[4] /\ box[4] <= src.h)
           => /\ err[t] = None
              /\ out.w = box[3] - box[1]
              /\ out.h = box[4] - box[2]
              /\ DOMAIN out.px = Pixels(out.w, out.h)
              /\ \A p \in Pixels(out.w, out.h) :
                   out.px[p] = src.px[<<box[1] + p[1], box[2] + p[2]>>]

\* The right-hand 2 x 1 strip of the bottom row of the grabbed monitor.
C7_Witness ==
  \E t \in Threads :
    /\ EditEnded(t)
    /\ local[t].image0 = GrabbedImage
    /\ local[t].box = <<MonW - 2, MonH - 1, MonW, MonH>>
    /\ image["cropped"].w = 2 /\ image["cropped"].h = 1
    /\ image["cropped"].px[<<1, 0>>] = ScreenPixel(MonW - 1, MonH - 1)

(***************************************************************************)
(* Properties of save_screenshot (checked under SpecSave).                 *)
(***************************************************************************)
\* A direct save call of thread t has ended / has ended without an exception.
SaveEnded(t) ==
  pc[t] = "idle" /\ local[t].mode = "api" /\ local[t].op = "save"
SaveDone(t) == SaveEnded(t) /\ err[t] = None

\* The suffix a file name bears after k - 1 collisions.
Suffix(k) == IF k = 1 THEN <<>> ELSE <<"_", k>>

\* C3: in calls run one after another, a write goes only to a path that did
\* not exist just before it, and the set of files only grows.
C3_NoOverwrite ==
  [][/\ files \subseteq files'
     /\ \A t \in Threads :
          (pc[t] = "write" /\ pc'[t] # "write" /\ err'[t] = None)
            => /\ local[t].file_path \notin files
               /\ files' = files \cup {local[t].file_path}]_vars

C3_Witness ==
  \E t \in Threads :
    /\ SaveDone(t)
    /\ local[t].saves = 2
    /\ local[t].tried # <<>>
    /\ Cardinality(files) >= 3

\* C4: the suffix counter starts at 2 and goes up by one per collision: the
\* file written after k - 1 collisions bears the suffix of k, its k - 1
\* earlier candidates bore the suffixes of 1..k-1 and all exist; so within one
\* timestamp T the files are T, T_2, T_3, ... in the order of the saves.
C4_SuffixSequence ==
  \A t \in Threads :
    SaveDone(t) =>
      LET p == local[t].file_path
          k == local[t].count
          tr == local[t].tried
      IN /\ p \in files
         /\ Len(tr) = k - 1
         /\ p.c_str = Suffix(k)
         /\ \A i \in 1..Len(tr) :
              /\ tr[i].c_str = Suffix(i)
              /\ tr[i] \in local[t].files0
              /\ tr[i] # p
         /\ (\A i \in 1..Len(tr) : tr[i].ts = p.ts)
              => /\ p = FilePath(p.ts, Suffix(k), file_format)
                 /\ p \notin local[t].files0
                 /\ \A j \in 1..(k - 1) :
                      FilePath(p.ts, Suffix(j), file_format)
                        \in local[t].files0

\* The second save of a run finds T and T_2 of its own timestamp and writes T_3.
C4_Witness ==
  \E t \in Threads :
    /\ SaveDone(t)
    /\ local[t].saves = 2
    /\ local[t].count = 3
    /\ \A i \in 1..2 : local[t].tried[i].ts = local[t].file_path.ts
    /\ local[t].file_path.c_str = <<"_", 3>>

\* C8 as claimed: a format outside the supported set makes save_screenshot
\* fail with InvalidFileFormat, write nothing and leave image_file_path.
C8_UnsupportedFormatFails ==
  \A t \in Threads :
    (SaveEnded(t) /\ dir_state = "ok"
       /\ file_format \notin SupportedImageFormats)
      => /\ err[t] = "InvalidFileFormat"
         /\ files = local[t].files0
         /\ image_file_path[local[t].backend] = local[t].path0

\* C9 as claimed: a missing or unwritable directory makes save_screenshot
\* fail with InvalidFilePathError, write nothing and leave image_file_path.
C9_BadDirectoryFails ==
  \A t \in Threads :
    (SaveEnded(t) /\ dir_state \in {"missing", "readonly"}
       /\ file_format \in SupportedImageFormats)
      => /\ err[t] = "InvalidFilePathError"
         /\ files = local[t].files0
         /\ image_file_path[local[t].backend] = local[t].path0

\* C10: a successful save adds exactly one file, and image_file_path is then
\* the path of that file: the last candidate built, not the first.
C10_OneFileLastCandidate ==
  \A t \in Threads :
    SaveDone(t) =>
      LET p == image_file_path[local[t].backend] IN
        /\ p # NoPath
        /\ p \notin local[t].files0
        /\ files = local[t].files0 \cup {p}
        /\ p = local[t].file_path
        /\ p.c_str = Suffix(Len(local[t].tried) + 1)
        /\ \A i \in 1..Len(local[t].tried) : p # local[t].tried[i]

\* A save that collided once, with the clock moving on before the retry.
C10_Witness ==
  \E t \in Threads :
    /\ SaveDone(t)
    /\ Len(local[t].tried) = 1
    /\ local[t].tried[1].ts # image_file_path[local[t].backend].ts
    /\ image_file_path[local[t].backend] \in files

(***************************************************************************)
(* CroppingWindow (screenshot_widgets.py 239-377).                         *)
(***************************************************************************)
\* A window as __init__ leaves it: the four IntVar of cropping_box hold 0;
\* written says whether cropping_box[3] has been set since the wait began.
NewWindow ==
  [open |-> TRUE, cropping_box |-> <<0, 0, 0, 0>>, written |-> FALSE,
   pressed |-> FALSE, rect |-> NoBox]

\* Pointer positions winfo_pointerx / winfo_pointery report: the pixels of the
\* monitor and, beside and below it, one more column and row of the desktop.
PointerPositions == (0..MonW) \X (0..MonH)

\* The positions the user of the application presses and releases at: the
\* top-left and the bottom-right pixel of the monitor.
PointerInputs == {<<0, 0>>, <<MonW - 1, MonH - 1>>}

\* Lines 318-321 left out: C16 must fail with it.
SwapXNever(c) == c

\* lines 318-321: the first and third IntVar change places when [0] > [2].
SwapX(c) == IF c[1] > c[3] THEN <<c[3], c[2], c[1], c[4]>> ELSE c

\* Lines 322-325 left out: C19 must fail with it.
SwapYNever(c) == c

\* lines 322-325: the second and fourth change places when [1] > [3].
SwapY(c) == IF c[2] > c[4] THEN <<c[1], c[4], c[3], c[2]>> ELSE c

\* Lines 328-329 left out: C1 must fail with it.
WidenXNever(c) == c

\* lines 328-329: one pixel is added to [2] when it equals [0].
WidenX(c) == IF c[1] = c[3] THEN <<c[1], c[2], c[3] + 1, c[4]>> ELSE c

\* Lines 330-331 left out: C15 must fail with it.
WidenYNever(c) == c

\* lines 330-331: one pixel is added to [3] when it equals [1].
WidenY(c) == IF c[2] = c[4] THEN <<c[1], c[2], c[3], c[4] + 1>> ELSE c

\* lines 317-331 and the tuple returned at 337-338.
NormalizeBox(c) == WidenY(WidenX(SwapY(SwapX(c))))

\* A window gets the pointer events when it holds the grab, or when no window
\* holds it and this one is on the screen; once cropping_box[3] is written
\* its wait is over and it handles no further event.
ReceivesInput(w) ==
  windows[w].open /\ ~windows[w].written /\ (grab = w \/ grab = None)

\* create_screenshot line 206 and mark_cropping_box up to the wait of line
\* 315: the window takes the grab, the main window is withdrawn, the canvas
\* is drawn and the three handlers are bound.
CreateCroppingWindow(t) ==
  /\ pc[t] = "window"
  /\ windows' = [windows EXCEPT ![t] = NewWindow]
  /\ grab' = t
  /\ parent_state' = "withdrawn"
  /\ pc' = [pc EXCEPT ![t] = "wait"]
  /\ UNCHANGED <<diskVars, cfgVars, image, image_file_path, local, err,
                 triggers, played>>

\* _on_mouse_press (lines 340-350): the pointer position is the first corner.
OnMousePress(w, p) ==
  /\ ReceivesInput(w)
  /\ windows' = [windows EXCEPT ![w].cropping_box =
                   <<p[1], p[2], @[3], @[4]>>,
                                ![w].pressed = TRUE,
                                ![w].rect = <<p[1], p[2], p[1] + 1, p[2] + 1>>]
  /\ UNCHANGED <<diskVars, cfgVars, image, image_file_path, pc, local, err,
                 parent_state, grab, triggers, played>>

\* _on_mouse_move (lines 352-359), bound to the motion with the button held:
\* the rectangle is redrawn from the first corner to the pointer and no
\* cropping_box variable is set. Before any press there is no rectangle:
\* the call raises inside Tk's callback and changes nothing.
OnMouseMove(w, p) ==
  /\ ReceivesInput(w)
  /\ windows[w].pressed
  /\ windows' = [windows EXCEPT ![w].rect =
                   <<windows[w].cropping_box[1], windows[w].cropping_box[2],
                     p[1], p[2]>>]
  /\ UNCHANGED <<diskVars, cfgVars, image, image_file_path, pc, local, err,
                 parent_state, grab, triggers, played>>

\* The window manager asks the cropping window to close (protocol
\* WM_DELETE_WINDOW of line 272, handler _close_window of lines 368-377)
\* while mark_cropping_box waits: the grab is released, the main window
\* minimized, the window destroyed. The four variables of cropping_box stay
\* as they are and nothing sets them any more.
CloseByWindowManager(w) ==
  /\ windows[w].open
  /\ ~windows[w].written
  /\ windows' = [windows EXCEPT ![w].open = FALSE]
  /\ grab' = IF grab = w THEN None ELSE grab
  /\ parent_state' = "iconic"
  /\ UNCHANGED <<diskVars, cfgVars, image, image_file_path, pc, local, err,
                 triggers, played>>

\* _on_mouse_release (lines 361-366): the pointer position is the second
\* corner; setting cropping_box[3] is what the wait of line 315 waits for.
OnMouseRelease(w, p) ==
  /\ ReceivesInput(w)
  /\ windows' = [windows EXCEPT ![w].cropping_box =
                   <<@[1], @[2], p[1], p[2]>>,
                                ![w].written = TRUE]
  /\ UNCHANGED <<diskVars, cfgVars, image, image_file_path, pc, local, err,
                 parent_state, grab, triggers, played>>

\* Waiting on cropping_box[0], which the press sets: C25 must fail with it.
WaitOverOnPress(w) == w.written \/ w.pressed

\* The wait ending when the window is destroyed: C28 must fail with it.
WaitOverOnDestroy(w) == w.written \/ ~w.open

\* wait_variable(self.cropping_box[3]) of line 315 returns once that variable
\* has been set.
WaitOver(w) == w.written

\* mark_cropping_box from line 317: the wait is over, the box is put in
\* order, _close_window (lines 368-377) releases the grab if this window
\* holds it, minimizes the main window and destroys this one, and the box
\* goes to create_screenshot (line 207).
MarkReturn(t) ==
  /\ pc[t] = "wait"
  /\ WaitOver(windows[t])
  /\ local' = [local EXCEPT ![t].box = NormalizeBox(windows[t].cropping_box),
                            ![t].raw = windows[t].cropping_box,
                            ![t].stages = StageDone(t, "mark")]
  /\ windows' = [windows EXCEPT ![t] = NoWindow]
  /\ grab' = IF grab = t THEN None ELSE grab
  /\ parent_state' = "iconic"
  /\ pc' = [pc EXCEPT ![t] = "edit"]
  /\ UNCHANGED <<diskVars, cfgVars, image, image_file_path, err, triggers,
                 played>>

(***************************************************************************)
(* create_screenshot of the two widgets (screenshot_widgets.py 102-122,    *)
(* 192-220), started by a button on the Tk thread or by a hotkey on the    *)
(* thread on which SystemHotkey runs its callbacks (app.py 256-266).       *)
(***************************************************************************)
Widgets == {"full", "cropped"}

\* A "Create screenshot" button can be clicked when the main window is on
\* the screen or minimized (the user brings it back) and no cropping window
\* keeps the input to itself; a hotkey is global.
CanTrigger(t) ==
  t = "main" => (grab = None /\ parent_state # "withdrawn")

\* One backend object for both widgets: C17 must fail with it.
BackendOfShared(w) == "cropped"

\* lines 78-80 and 168-170: each widget constructs a backend object of its
\* own in __init__ and uses no other.
BackendOf(w) == w

Trigger(t, w) ==
  /\ pc[t] = "idle"
  /\ triggers < MaxTriggers
  /\ CanTrigger(t)
  /\ triggers' = triggers + 1
  /\ parent_state' = IF t = "main" THEN "normal" ELSE parent_state
  /\ local' = [local EXCEPT ![t] =
                 [NoLocals EXCEPT !.mode = w, !.backend = BackendOf(w)]]
  /\ err' = [err EXCEPT ![t] = None]
  /\ played' = [played EXCEPT ![t] = FALSE]
  /\ pc' = [pc EXCEPT ![t] = "take"]
  /\ UNCHANGED <<diskVars, cfgVars, image, image_file_path, windows, grab>>

\* lines 118 and 216: self.backend.image = None. Nothing reads box after
\* line 210: it is dropped here with the image it was for.
Discard(t) ==
  /\ pc[t] = "discard"
  /\ image' = [image EXCEPT ![local[t].backend] = NoImage]
  /\ pc' = [pc EXCEPT ![t] = "sound"]
  /\ local' = [local EXCEPT ![t].stages = StageDone(t, "discard"),
                            ![t].box = NoBox, ![t].raw = NoBox]
  /\ UNCHANGED <<diskVars, cfgVars, guiVars, image_file_path, err>>

\* The test of enable_sound lost: C14 must fail with it.
PlaysSoundAlways(enabled) == TRUE

\* lines 121 and 219: if self.settings["enable_sound"]

PlaysSound(enabled) == enabled

\* self.sound.play(): the exception it ends with, or None. pygame raises
\* pygame.error from Sound.play when the mixer cannot play.
PlayError(a) == IF a = "broken" THEN "pygame.error" ELSE None

\* lines 120-122 and 218-220: the sound when enabled, and create_screenshot
\* returns; nothing catches what play() raises.
PlaySound(t) ==
  /\ pc[t] = "sound"
  /\ LET e == IF PlaysSound(enable_sound) THEN PlayError(audio) ELSE None IN
       /\ played' = [played EXCEPT ![t] = PlaysSound(enable_sound) /\ e = None]
       /\ err' = [err EXCEPT ![t] = e]
  /\ pc' = [pc EXCEPT ![t] = "idle"]
  /\ local' = [local EXCEPT ![t] = NoLocals]
  /\ UNCHANGED <<diskVars, cfgVars, windows, parent_state, grab, triggers,
                 image, image_file_path>>

\* The application after start-up: the settings passed validation (the
\* directory exists, the format is a supported one), no session has run.
Init ==
  /\ InitCommon
  /\ enable_sound \in BOOLEAN
  /\ display = "ok"
  /\ audio = "ok"
  /\ file_format = "png"
  /\ dir_state = "ok"
  /\ clock = 0
  /\ files = {}
  /\ image = [b \in Backends |-> NoImage]

Next ==
  \/ \E t \in Threads, w \in Widgets : Trigger(t, w)
  \/ \E t \in Threads :
       \/ TakeScreenshot(t)
       \/ CreateCroppingWindow(t)
       \/ MarkReturn(t)
       \/ EditScreenshot(t)
       \/ SaveStart(t)
       \/ SaveCheck(t)
       \/ SaveWrite(t)
       \/ Discard(t)
       \/ PlaySound(t)
  \/ \E w \in Threads, p \in PointerInputs :
       \/ OnMousePress(w, p)
       \/ OnMouseRelease(w, p)
  \/ ClockChange

Spec == Init /\ [][Next]_vars

\* C2 as claimed: at most one cropping window is open at any time, and a
\* cropped-capture trigger that comes while one is open is a no-op: it starts
\* no capture and opens no second window.
C2_OneCroppingWindow ==
  [][/\ Cardinality({t \in Threads : windows'[t].open}) <= 1
     /\ \A t, u \in Threads :
          (t # u /\ windows[u].open /\ pc[t] = "idle")
            => ~(pc'[t] = "take" /\ local'[t].mode = "cropped")]_vars

(***************************************************************************)
(* mark_cropping_box on its own: one cropping window, presses and releases *)
(* at any pointer position, up to the box it returns.                      *)
(***************************************************************************)
NextMark ==
  \/ Trigger("main", "cropped")
  \/ TakeScreenshot("main")
  \/ CreateCroppingWindow("main")
  \/ \E p \in PointerPositions :
       \/ OnMousePress("main", p)
       \/ OnMouseRelease("main", p)
  \/ MarkReturn("main")

SpecMark == Init /\ [][NextMark]_vars

Min(a, b) == IF a <= b THEN a ELSE b
Max(a, b) == IF a >= b THEN a ELSE b

\* C1: whatever corners the press and release handlers recorded, the box
\* mark_cropping_box returns has x0 < x1 and y0 < y1, x0 and y0 the smaller
\* recorded coordinates, x1 and y1 the larger ones or the larger ones plus 1.
C1_BoxOrdered ==
  [][\A t \in Threads :
       (pc[t] = "wait" /\ pc'[t] = "edit")
         => LET c == windows[t].cropping_box
                b == local'[t].box
            IN /\ b[1] < b[3] /\ b[2] < b[4]
               /\ b[1] = Min(c[1], c[3])
               /\ b[3] \in {Max(c[1], c[3]), Max(c[1], c[3]) + 1}
               /\ b[2] = Min(c[2], c[4])
               /\ b[4] \in {Max(c[2], c[4]), Max(c[2], c[4]) + 1}]_vars

\* A box one pixel wide comes back from the bottom-right pixel of the monitor.
C1_Witness ==
  \E t \in Threads :
    /\ pc[t] = "edit"
    /\ local[t].mode = "cropped"
    /\ local[t].box = <<MonW - 1, MonH - 1, MonW, MonH>>

(***************************************************************************)
(* One create_screenshot call after another on the Tk thread ("Create      *)
(* screenshot" buttons), in any environment: the directory may have been   *)
(* removed or write-protected since the settings were validated, a monitor *)
(* may be missing, the mixer may fail to play.                             *)
(***************************************************************************)
\* A monitor is unplugged or plugged in between two sessions.
DisplayChange ==
  /\ \A t \in Threads : pc[t] = "idle"
  /\ triggers > 0
  /\ \E d \in Displays \ {display} : display' = d
  /\ UNCHANGED <<diskVars, file_format, enable_sound, audio, setVars,
                 guiVars, image, image_file_path, pc, local, err>>

InitSession ==
  /\ InitCommon
  /\ enable_sound \in BOOLEAN
  /\ display \in Displays
  /\ audio \in Audios
  /\ file_format = "png"
  /\ dir_state \in DirStates
  /\ clock = 0
  /\ files = {}
  /\ image = [b \in Backends |-> NoImage]

NextSession ==
  \/ \E w \in Widgets : Trigger("main", w)
  \/ TakeScreenshot("main")
  \/ CreateCroppingWindow("main")
  \/ \E p \in PointerInputs :
       \/ OnMousePress("main", p)
       \/ OnMouseRelease("main", p)
  \/ MarkReturn("main")
  \/ EditScreenshot("main")
  \/ SaveStart("main")
  \/ SaveCheck("main")
  \/ SaveWrite("main")
  \/ Discard("main")
  \/ PlaySound("main")
  \/ ClockChange
  \/ DisplayChange

SpecSession == InitSession /\ [][NextSession]_vars

(***************************************************************************)
(* Cropped sessions from the button, one after another, with the press and *)
(* the release at any pointer position: from the drag to the file.         *)
(***************************************************************************)
NextDrag ==
  \/ Trigger("main", "cropped")
  \/ TakeScreenshot("main")
  \/ CreateCroppingWindow("main")
  \/ \E p \in PointerPositions :
       \/ OnMousePress("main", p)
       \/ OnMouseRelease("main", p)
  \/ MarkReturn("main")
  \/ EditScreenshot("main")
  \/ SaveStart("main")
  \/ SaveCheck("main")
  \/ SaveWrite("main")
  \/ Discard("main")
  \/ PlaySound("main")
  \/ ClockChange

SpecDrag == Init /\ [][NextDrag]_vars

(***************************************************************************)
(* A cropped session from the button on the Tk thread, and full captures   *)
(* by hotkey on the thread SystemHotkey calls back on. That thread is an   *)
(* operating-system thread of its own: a step it can take it takes in the  *)
(* end, whatever the Tk thread waits for.                                  *)
(***************************************************************************)
HotkeyStep ==
  \/ TakeScreenshot("hotkey")
  \/ EditScreenshot("hotkey")
  \/ SaveStart("hotkey")
  \/ SaveCheck("hotkey")
  \/ SaveWrite("hotkey")
  \/ Discard("hotkey")
  \/ PlaySound("hotkey")

NextFull ==
  \/ Trigger("main", "cropped")
  \/ Trigger("hotkey", "full")
  \/ HotkeyStep
  \/ TakeScreenshot("main")
  \/ CreateCroppingWindow("main")
  \/ \E p \in PointerInputs :
       \/ OnMousePress("main", p)
       \/ OnMouseRelease("main", p)
  \/ MarkReturn("main")
  \/ EditScreenshot("main")
  \/ SaveStart("main")
  \/ SaveCheck("main")
  \/ SaveWrite("main")
  \/ Discard("main")
  \/ PlaySound("main")
  \/ ClockChange

SpecFull == Init /\ [][NextFull]_vars /\ WF_vars(HotkeyStep)

\* A full capture has just been started by hotkey while the cropping window
\* of the Tk thread is open.
FullStartedDuringSelection ==
  /\ pc["hotkey"] = "take"
  /\ local["hotkey"].mode = "full"
  /\ windows["main"].open

\* The hotkey thread's full capture has returned, its file written.
FullCompleted ==
  /\ pc["hotkey"] = "idle"
  /\ err["hotkey"] = None
  /\ image_file_path["full"] # NoPath
  /\ image_file_path["full"] \in files
  /\ image["full"] = NoImage

StagePcs == {"take", "window", "wait", "edit", "save", "loop", "write"}

Range(seq) == {seq[i] : i \in 1..Len(seq)}

\* The statements that have returned when the session reaches the sound.
AllStages(mode) ==
  IF mode = "cropped" THEN <<"take", "mark", "edit", "save", "discard">>
  ELSE <<"take", "edit", "save", "discard">>

C12_NoRasterAfterSession ==
  (\A t \in Threads : pc[t] = "idle")
    => \A b \in Backends : image[b] = NoImage

\* C13 as claimed: a session that has reached the sound, its file written,
\* returns without an exception whatever sound.play() does.
C13_SoundFailureNotFatal ==
  [][\A t \in Threads :
       (pc[t] = "sound" /\ pc'[t] = "idle") => err'[t] = None]_vars

\* C14: the sound is played only with enable_sound true, and only by a
\* session whose statements up to the save and then the discard have all
\* returned and whose file is in the directory; a session that ends with an
\* exception has not played it.
C14_SoundAfterSave ==
  [][\A t \in Threads :
       /\ (played'[t] /\ ~played[t])
            => /\ enable_sound
               /\ pc[t] = "sound"
               /\ local[t].stages = AllStages(local[t].mode)
               /\ local[t].file_path \in files
               /\ err'[t] = None
       /\ err'[t] # None => ~played'[t]]_vars

C14_Witness ==
  \E t \in Threads :
    /\ pc[t] = "idle"
    /\ played[t]
    /\ err[t] = None
    /\ enable_sound
    /\ files # {}
    /\ \A b \in Backends : image[b] = NoImage

\* C18 as claimed: with no monitor reachable take_screenshot fails with
\* CaptureError and leaves the stored image as it was.
C18_NoDisplayCaptureError ==
  [][\A t \in Threads :
       (pc[t] = "take" /\ display = "none")
         => /\ err'[t] = "CaptureError"
            /\ image' = image]_vars

(***************************************************************************)
(* Properties of the box mark_cropping_box returns (checked under          *)
(* SpecMark) and of the cropped session (checked under SpecDrag).          *)
(***************************************************************************)
\* mark_cropping_box of thread t's cropped session has returned its box.
Marked(t) == local[t].mode = "cropped" /\ local[t].raw # NoBox

Abs(a) == IF a < 0 THEN -a ELSE a

\* C15: per axis the box has the smaller recorded coordinate first and then
\* the larger, or the same plus 1 exactly when the two are equal; so a click
\* at (x, y) gives (x, y, x + 1, y + 1) and a drag that differs on both axes
\* gives (min, min, max, max).
C15_DegenerateClick ==
  \A t \in Threads :
    Marked(t) =>
      LET c == local[t].raw
          b == local[t].box
      IN /\ b[1] = Min(c[1], c[3])
         /\ b[2] = Min(c[2], c[4])
         /\ b[3] = IF c[1] = c[3] THEN c[1] + 1 ELSE Max(c[1], c[3])
         /\ b[4] = IF c[2] = c[4] THEN c[2] + 1 ELSE Max(c[2], c[4])
         /\ (c[1] = c[3] /\ c[2] = c[4])
              => b = <<c[1], c[2], c[1] + 1, c[2] + 1>>
         /\ (c[1] # c[3] /\ c[2] # c[4])
              => b = <<Min(c[1], c[3]), Min(c[2], c[4]),
                       Max(c[1], c[3]), Max(c[2], c[4])>>

\* A click on the position right below the bottom-right corner.
C15_Witness ==
  \E t \in Threads :
    /\ Marked(t)
    /\ pc[t] = "edit"
    /\ local[t].raw = <<MonW, MonH, MonW, MonH>>
    /\ local[t].box = <<MonW, MonH, MonW + 1, MonH + 1>>

\* C16: the box returned for a press at p and a release at q is the box
\* lines 317-338 give for a press at q and a release at p.
C16_OrderIndependent ==
  \A t \in Threads :
    Marked(t) =>
      \A p, q \in PointerPositions :
        local[t].raw = <<p[1], p[2], q[1], q[2]>>
          => local[t].box = NormalizeBox(<<q[1], q[2], p[1], p[2]>>)

\* A drag from the bottom-right position to the top-left one.
C16_Witness ==
  \E t \in Threads :
    /\ Marked(t)
    /\ pc[t] = "edit"
    /\ local[t].raw = <<MonW, MonH, 0, 0>>
    /\ local[t].box = <<0, 0, MonW, MonH>>

\* Every recorded coordinate is a pixel of the displayed w x h raster.
RawInRaster(c, img) ==
  /\ 0 <= c[1] /\ c[1] <= img.w - 1 /\ 0 <= c[3] /\ c[3] <= img.w - 1
  /\ 0 <= c[2] /\ c[2] <= img.h - 1 /\ 0 <= c[4] /\ c[4] <= img.h - 1

\* C19: with every recorded coordinate inside the displayed W x H raster the
\* box handed to edit_screenshot has 0 <= x0 < x1 <= W and 0 <= y0 < y1 <= H,
\* and edit_screenshot returns: no CroppingError, the save follows.
C19_InteractiveNeverCroppingError ==
  [][\A t \in Threads :
       (/\ pc[t] = "edit"
        /\ Marked(t)
        /\ image[local[t].backend] # NoImage
        /\ RawInRaster(local[t].raw, image[local[t].backend]))
         => LET b == local[t].box
                img == image[local[t].backend]
            IN /\ 0 <= b[1] /\ b[1] < b[3] /\ b[3] <= img.w
               /\ 0 <= b[2] /\ b[2] < b[4] /\ b[4] <= img.h
               /\ err'[t] = None
               /\ pc'[t] = "save"]_vars

\* A drag from the bottom-right pixel to the top-left one, cropped.
C19_Witness ==
  \E t \in Threads :
    /\ pc[t] = "save"
    /\ Marked(t)
    /\ local[t].raw = <<MonW - 1, MonH - 1, 0, 0>>
    /\ err[t] = None
    /\ image[local[t].backend].w = MonW - 1

\* C20: in a cropped session with a drag from (a, b) to (c, d) inside the
\* raster, a # c and b # d, the image save_screenshot is given and writes
\* is |c - a| wide and |d - b| high.
C20_EndToEndSize ==
  \A t \in Threads :
    (/\ Marked(t)
     /\ pc[t] \in {"save", "loop", "write", "discard"}
     /\ local[t].raw[1] # local[t].raw[3]
     /\ local[t].raw[2] # local[t].raw[4]
     /\ RawInRaster(local[t].raw, GrabbedImage))
      => /\ image[local[t].backend].w = Abs(local[t].raw[3] - local[t].raw[1])
         /\ image[local[t].backend].h = Abs(local[t].raw[4] - local[t].raw[2])
         /\ pc[t] = "discard" => local[t].file_path \in files

\* The file of a drag across the whole raster's pixels has been written.
C20_Witness ==
  \E t \in Threads :
    /\ Marked(t)
    /\ pc[t] = "discard"
    /\ local[t].raw = <<MonW - 1, 0, 0, MonH - 1>>
    /\ image[local[t].backend].w = MonW - 1
    /\ image[local[t].backend].h = MonH - 1
    /\ local[t].file_path \in files

(***************************************************************************)
(* Properties of sessions that run at the same time (checked under Spec).  *)
(***************************************************************************)
\* Where a thread stands while its session holds the raster it captured.
HoldsRaster(t) ==
  pc[t] \in {"window", "wait", "edit", "save", "loop", "write", "discard"}

\* Thread t takes the step.
StepOf(t) == pc'[t] # pc[t] \/ local'[t] # local[t]

\* C21 as claimed: when sessions save at the same time, a write goes only
\* to a path that did not exist just before it, and no two sessions stand
\* before the write of the same path.
C21_NoConcurrentSamePath ==
  [][/\ \A t \in Threads :
          (pc[t] = "write" /\ pc'[t] = "discard")
            => local[t].file_path \notin files
     /\ \A t, u \in Threads :
          (t # u /\ pc'[t] = "write" /\ pc'[u] = "write")
            => local'[t].file_path # local'[u].file_path]_vars

\* C22 as claimed: while a session holds the raster it captured, no step of
\* another session replaces the image of that session's backend or sets it
\* to None.
C22_RasterNotShared ==
  [][\A t, u \in Threads :
       (t # u /\ StepOf(t) /\ HoldsRaster(u))
         => image'[local[u].backend] = image[local[u].backend]]_vars

(***************************************************************************)
(* The collision loop of one save_screenshot call with no other writer,    *)
(* the thread running on while the clock moves as it likes.                *)
(***************************************************************************)
SaveStep ==
  \/ SaveStart("main")
  \/ SaveCheck("main")
  \/ SaveWrite("main")

NextLoop ==
  \/ (ApiSave("main") /\ local["main"].saves = 0)
  \/ SaveStep
  \/ ClockChange

SpecLoop == InitSave /\ [][NextLoop]_vars /\ WF_vars(SaveStep)

\* C23: a save_screenshot call that has begun ends, by the write or by the
\* exception of the write; every iteration of its loop that goes round has
\* met another file that was in the directory when the call began, so the
\* loop goes round at most as many times as there were files.
C23_LoopTerminates ==
  /\ (pc["main"] = "save" ~> SaveEnded("main"))
  /\ [][\A t \in Threads :
          pc'[t] \in {"loop", "write"}
            => /\ Len(local'[t].tried) <= Cardinality(local'[t].files0)
               /\ local'[t].count = Len(local'[t].tried) + 1
               /\ \A i, j \in 1..Len(local'[t].tried) :
                    /\ local'[t].tried[i] \in local'[t].files0
                    /\ i # j => local'[t].tried[i] # local'[t].tried[j]]_vars

\* A call that went round the loop once for every file in the directory.
C23_Witness ==
  /\ SaveDone("main")
  /\ Cardinality(local["main"].files0) = MaxPre
  /\ Len(local["main"].tried) = MaxPre
  /\ local["main"].file_path \in files

(***************************************************************************)
(* The cropping window with every event it can get: a cropped session from *)
(* the button on the Tk thread with presses, moves and releases of the     *)
(* pointer and the window manager's request to close, while full captures  *)
(* by hotkey go on on the other thread.                                    *)
(***************************************************************************)
NextSelector ==
  \/ Trigger("main", "cropped")
  \/ Trigger("hotkey", "full")
  \/ HotkeyStep
  \/ TakeScreenshot("main")
  \/ CreateCroppingWindow("main")
  \/ \E p \in PointerInputs :
       \/ OnMousePress("main", p)
       \/ OnMouseMove("main", p)
       \/ OnMouseRelease("main", p)
  \/ CloseByWindowManager("main")
  \/ MarkReturn("main")
  \/ EditScreenshot("main")
  \/ SaveStart("main")
  \/ SaveCheck("main")
  \/ SaveWrite("main")
  \/ Discard("main")
  \/ PlaySound("main")
  \/ ClockChange

SpecSelector == Init /\ [][NextSelector]_vars

\* C25: mark_cropping_box returns only when a release has set the second
\* corner; a press, a move or the closing of the window leaves it waiting;
\* and once the first release is delivered the window handles no further
\* event: the next step of the session is the return.
C25_OnlyReleaseEndsWait ==
  [][\A t \in Threads :
       pc[t] = "wait"
         => /\ pc'[t] # "wait" => (windows[t].written /\ pc'[t] = "edit")
            /\ (pc'[t] = "wait" /\ ~windows[t].written
                  /\ windows'[t].written)
                 => /\ windows[t].open
                    /\ windows'[t].cropping_box[1] = windows[t].cropping_box[1]
                    /\ windows'[t].cropping_box[2] = windows[t].cropping_box[2]
                    /\ windows'[t].pressed = windows[t].pressed
            /\ windows[t].written
                 => (pc'[t] = "edit" \/ windows'[t] = windows[t])]_vars

\* A press and a move were delivered and left the session waiting; the
\* release has now been delivered and the return is the session's next step.
C25_Witness ==
  /\ pc["main"] = "wait"
  /\ windows["main"].open
  /\ windows["main"].pressed
  /\ windows["main"].rect[3] # windows["main"].rect[1] + 1
  /\ windows["main"].written

\* C26 as claimed: the step in which mark_cropping_box returns leaves the
\* grab released, the window destroyed and the main window minimized after
\* having been withdrawn, and the main window is withdrawn in every state in
\* which a cropping window exists.
C26_ParentHiddenWhileSelecting ==
  /\ [](\A t \in Threads : windows[t].open => parent_state = "withdrawn")
  /\ [][\A t \in Threads :
          (pc[t] = "wait" /\ pc'[t] = "edit")
            => /\ grab' # t
               /\ ~windows'[t].open
               /\ parent_state = "withdrawn"
               /\ parent_state' = "iconic"]_vars

\* C27 as claimed: a release is taken as the second corner only after a
\* press has set the first corner, and every box that is returned has a
\* first corner that a press set.
C27_PressBeforeRelease ==
  [][\A t \in Threads :
       pc[t] = "wait"
         => /\ (pc'[t] = "wait" /\ ~windows[t].written
                  /\ windows'[t].written) => windows[t].pressed
            /\ pc'[t] = "edit" => windows[t].pressed]_vars

\* C28: once the window manager has closed the cropping window of a waiting
\* session, the window stays destroyed and every step leaves that session
\* waiting where it was: it marks, crops and saves nothing, and the raster
\* it captured stays in its backend.
C28_ClosedSelectorNeverReturns ==
  [][\A t \in Threads :
       /\ (pc[t] = "wait" /\ ~windows[t].open)
            => /\ pc'[t] = "wait"
               /\ windows'[t] = windows[t]
               /\ local'[t] = local[t]
               /\ local[t].stages = <<"take">>
               /\ image[local[t].backend] = GrabbedImage
               /\ image'[local[t].backend] = image[local[t].backend]
       /\ (pc[t] = "wait" /\ windows[t].open /\ pc'[t] = "wait"
             /\ ~windows'[t].open)
            => (grab' # t /\ parent_state' = "iconic")]_vars

\* The window was closed in the middle of a drag and the session waits on,
\* while a full capture by hotkey has been saved.
C28_Witness ==
  /\ pc["main"] = "wait"
  /\ ~windows["main"].open
  /\ windows["main"].pressed
  /\ image_file_path["full"] # NoPath

(***************************************************************************)
(* The settings window (GUI/settings.py), opened from the main page        *)
(* (GUI/main_window.py 109-117) on the Settings object the screenshot      *)
(* widgets hold as well, with full captures from the button between its    *)
(* uses.                                                                   *)
(***************************************************************************)
\* The "settings" button: SettingsWindow.__init__ (lines 49-125) takes the
\* grab, so no other button of the main window works until it is closed.
OpenSettings ==
  /\ app = "main"
  /\ \A t \in Threads : pc[t] = "idle"
  /\ app' = "settings"
  /\ UNCHANGED <<diskVars, guiVars, file_format, enable_sound, display, audio,
                 settings, settings_file, apply_err, image, image_file_path,
                 pc, local, err>>

\* close_window (lines 163-172).
CloseSettings ==
  /\ app = "settings"
  /\ app' = "main"
  /\ UNCHANGED <<diskVars, guiVars, file_format, enable_sound, display, audio,
                 settings, settings_file, apply_err, image, image_file_path,
                 pc, local, err>>

\* apply_new_settings up to line 150, with the texts of the entries and the
\* state of the check box: directory, format and sound are put in the dict
\* (134-136), then each hotkey once its text is read (142-143), then the
\* dict is validated (147). An error is shown and the window stays; with no
\* error the main window is destroyed (150).
ApplyNewSettings(dir, fmt, sound, fs, cs) ==
  /\ app = "settings"
  /\ LET s1 == [settings EXCEPT !.global_save_dir = dir,
                                 !.global_file_format = fmt]
         f == JsonLoads(fs)
         c == JsonLoads(cs)
         s2 == IF f.ok
                 THEN [s1 EXCEPT !.full_screenshot_hotkey = f.value]
                 ELSE s1
         s3 == IF f.ok /\ c.ok
                 THEN [s2 EXCEPT !.cropped_screenshot_hotkey = c.value]
                 ELSE s2
         e == IF f.ok /\ c.ok THEN ValidationErrorOf(s3)
                              ELSE "JSONDecodeError"
     IN /\ settings' = s3
        /\ enable_sound' = sound
        /\ apply_err' = e
        /\ app' = IF e = None THEN "destroyed" ELSE "settings"
  /\ UNCHANGED <<diskVars, guiVars, file_format, display, audio,
                 settings_file, image, image_file_path, pc, local, err>>

\* line 151, write_settings_file (backend/settings.py 224-237): the dict is
\* dumped to the file, or the file cannot be opened for writing and the
\* exception leaves apply_new_settings.
WriteSettingsFile ==
  /\ app = "destroyed"
  /\ \E ok \in BOOLEAN :
       IF ok
         THEN /\ settings_file' = FileOf(settings, enable_sound)
              /\ app' = "written"
              /\ UNCHANGED apply_err
         ELSE /\ app' = "crashed"
              /\ apply_err' = "OSError"
              /\ UNCHANGED settings_file
  /\ UNCHANGED <<diskVars, guiVars, file_format, enable_sound, display, audio,
                 settings, image, image_file_path, pc, local, err>>

\* line 153: the application is started again.
Restart ==
  /\ app = "written"
  /\ app' = "restarted"
  /\ UNCHANGED <<diskVars, guiVars, file_format, enable_sound, display, audio,
                 settings, settings_file, apply_err, image, image_file_path,
                 pc, local, err>>

NextSettings ==
  \/ OpenSettings
  \/ CloseSettings
  \/ \E dir \in DirEntries, fmt \in FormatEntries, sound \in BOOLEAN,
        hk \in HotkeyEntries :
       ApplyNewSettings(dir, fmt, sound, hk[1], hk[2])
  \/ WriteSettingsFile
  \/ Restart
  \/ (app = "main" /\ Trigger("main", "full"))
  \/ TakeScreenshot("main")
  \/ EditScreenshot("main")
  \/ SaveStart("main")
  \/ SaveCheck("main")
  \/ SaveWrite("main")
  \/ Discard("main")
  \/ PlaySound("main")

SpecSettings == Init /\ [][NextSettings]_vars

\* A format name with its letters made small.
LowerCase(f) ==
  CASE f \in {"png", "PNG", "Png"} -> "png"
    [] f \in {"jpeg", "JPEG", "JpEg"} -> "jpeg"
    [] f \in {"jpg", "JPG"} -> "jpg"
    [] f \in {"bmp", "BMP"} -> "bmp"
    [] OTHER -> f

\* The main window was destroyed by an apply_new_settings call that found
\* the dict valid.
Applied == app \in {"destroyed", "written", "restarted", "crashed"}

\* C24 as claimed: validation refuses a format only when it is none of png,
\* jpeg, jpg, bmp in any letter case, and accepts a dict only when its
\* format is one of them.
C24_FormatsAnyCase ==
  /\ apply_err = "global_file_format"
       => LowerCase(settings.global_file_format)
            \notin {"png", "jpeg", "jpg", "bmp"}
  /\ Applied
       => LowerCase(settings.global_file_format)
            \in {"png", "jpeg", "jpg", "bmp"}

\* C29 as claimed: an apply_new_settings call that shows an error leaves
\* the settings in memory, enable_sound among them, as they were.
C29_FailedApplyChangesNothing ==
  [][(app = "settings" /\ app' = "settings" /\ apply_err' # None)
       => (settings' = settings /\ enable_sound' = enable_sound)]_vars

\* What validate_settings_dict asks of the keys the window edits.
IsValidSettings(d) ==
  /\ d.global_save_dir \in ExistingDirs
  /\ d.global_file_format \in SupportedImageFormats
  /\ d.full_screenshot_hotkey # <<>>
  /\ d.cropped_screenshot_hotkey # <<>>
  /\ d.full_screenshot_hotkey # d.cropped_screenshot_hotkey
  /\ \A i \in 1..Len(d.full_screenshot_hotkey) :
       d.full_screenshot_hotkey[i] \in KnownKeys
  /\ \A i \in 1..Len(d.cropped_screenshot_hotkey) :
       d.cropped_screenshot_hotkey[i] \in KnownKeys

====
